---- MODULE Spec2Model ----
(***************************************************************************)
(* A model of jcvi's apps/grid.py: the qsub command builder                *)
(* (GridProcess.build), the job launcher (GridProcess.start), the job      *)
(* batch (Grid), the local process group (Jobs) and the GNU-parallel-like  *)
(* template expander (run), with the array submitter (array).              *)
(*                                                                         *)
(* A Python str is a sequence of one-character strings.  An optional       *)
(* value (a keyword argument that defaults to None) is None == << >> or    *)
(* Some(v) == <<v>>.                                                       *)
(***************************************************************************)
EXTENDS Integers, Sequences, FiniteSets, TLC

VARIABLES
    job,        \* SpecBuild: the GridProcess under test
    job0,       \* SpecBuild: the same object as constructed
    builds,     \* SpecBuild: what each build() call gave, oldest first
    batch,      \* the GridProcess objects of a Grid / of array() / of run()
    cur,        \* index in batch of the job start() is working on
    pc,         \* position of the submitting code
    sent,       \* the submission commands executed so far, oldest first
    fs,         \* the output-file namespace: path -> state of the file
    grid,       \* the scheduler's side: job index -> state of the queued job
    cmd,        \* run(): the template, " ".join(args)
    i,          \* run(): the loop counter of enumerate(filenames)
    loc,        \* run(): the locals of the last loop iteration
    procs,      \* Jobs: per child, its state and how often it was started and joined
    ppc,        \* Jobs: position of the parent in Jobs.run(): the loop and its index
    args,       \* what the entry point (Grid, array, run) was called with
    resp        \* the stdout the last submission command gave, None before any

vars == <<job, job0, builds, batch, cur, pc, sent, fs, grid, cmd, i, loc, procs, ppc,
          args, resp>>

buildVars == <<job, job0, builds>>
gridVars == <<batch, cur, pc, sent, fs, grid, args, resp>>
runVars == <<cmd, i, loc>>
jobsVars == <<procs, ppc>>

----------------------------------------------------------------------------
(* Python values *)

None == << >>
Some(v) == <<v>>

\* bool(x) for an optional str: None and "" are false
TruthyStr(o) == o # None /\ o[1] # << >>
\* bool(x) for an optional int: None and 0 are false
TruthyInt(o) == o # None /\ o[1] # 0

Whitespace == {" ", "\n", "\t"}
Digits == <<"0", "1", "2", "3", "4", "5", "6", "7", "8", "9">>
DigitSet == {Digits[k] : k \in 1..10}

\* sub in s
Contains(s, sub) ==
    \E k \in 1..(Len(s) - Len(sub) + 1) : SubSeq(s, k, k + Len(sub) - 1) = sub

\* s.find(sub, start) + 1 with 1-based start: the least index >= start where sub
\* begins, 0 when there is none
Find(s, sub, start) ==
    LET hits == {k \in start..(Len(s) - Len(sub) + 1) : SubSeq(s, k, k + Len(sub) - 1) = sub}
    IN  IF hits = {} THEN 0 ELSE CHOOSE k \in hits : \A h \in hits : k <= h

\* s.rfind(sub) + 1: the greatest index where sub begins, 0 when there is none
RFind(s, sub) ==
    LET hits == {k \in 1..(Len(s) - Len(sub) + 1) : SubSeq(s, k, k + Len(sub) - 1) = sub}
    IN  IF hits = {} THEN 0 ELSE CHOOSE k \in hits : \A h \in hits : k >= h

RECURSIVE ReplaceFrom(_, _, _, _)
ReplaceFrom(s, old, new, start) ==
    LET k == Find(s, old, start)
    IN  IF k = 0 THEN SubSeq(s, start, Len(s))
        ELSE SubSeq(s, start, k - 1) \o new \o ReplaceFrom(s, old, new, k + Len(old))

\* s.replace(old, new), old non-empty: every non-overlapping occurrence, left to right
Replace(s, old, new) == ReplaceFrom(s, old, new, 1)

\* s.strip()
Strip(s) ==
    LET keep == {k \in 1..Len(s) : s[k] \notin Whitespace}
    IN  IF keep = {} THEN << >>
        ELSE SubSeq(s, CHOOSE k \in keep : \A h \in keep : k <= h,
                       CHOOSE k \in keep : \A h \in keep : k >= h)

\* s.rstrip(ch)
RStripChar(s, ch) ==
    LET keep == {k \in 1..Len(s) : s[k] # ch}
    IN  IF keep = {} THEN << >>
        ELSE SubSeq(s, 1, CHOOSE k \in keep : \A h \in keep : k >= h)

\* s.rsplit(sep, 1)[0]
RSplit1Head(s, sep) ==
    LET k == RFind(s, sep) IN IF k = 0 THEN s ELSE SubSeq(s, 1, k - 1)

\* s.split(sep)[0]
SplitHead(s, sep) ==
    LET k == Find(s, sep, 1) IN IF k = 0 THEN s ELSE SubSeq(s, 1, k - 1)

\* s.split(sep, 1), for s that contains sep
Split1(s, sep) ==
    LET k == Find(s, sep, 1)
    IN  <<SubSeq(s, 1, k - 1), SubSeq(s, k + Len(sep), Len(s))>>

RECURSIVE StrNat(_)
StrNat(n) == IF n < 10 THEN <<Digits[n + 1]>> ELSE StrNat(n \div 10) \o <<Digits[(n % 10) + 1]>>

\* str(n)
Str(n) == IF n < 0 THEN <<"-">> \o StrNat(-n) ELSE StrNat(n)

\* os.path.split(p)
OpSplit(p) ==
    LET k == RFind(p, <<"/">>)
        head == SubSeq(p, 1, k)
        tail == SubSeq(p, k + 1, Len(p))
    IN  IF head # << >> /\ (\E h \in 1..Len(head) : head[h] # "/")
        THEN <<RStripChar(head, "/"), tail>>
        ELSE <<head, tail>>

\* os.path.join(a, b)
OpJoin(a, b) ==
    IF b # << >> /\ b[1] = "/" THEN b
    ELSE IF a = << >> \/ a[Len(a)] = "/" THEN a \o b
    ELSE a \o <<"/">> \o b

----------------------------------------------------------------------------
(* GridProcess *)

PCODE == <<"0", "4", "0", "4", "8">>
DefaultQueue == <<"d", "e", "f", "a", "u", "l", "t">>
ArrayLow == 1
ArrayHigh == 100000

\* the two response patterns, by name
Pat1 == "pat1"
Pat2 == "pat2"

\* GridProcess.__init__
SelectPat(arr) == IF TruthyInt(arr) THEN Pat2 ELSE Pat1

GridProcess(c, queue, threaded, infile, outfile, errfile, arr) ==
    [cmd |-> c, jobid |-> << >>, queue |-> queue, threaded |-> threaded,
     infile |-> infile, outfile |-> outfile, errfile |-> errfile, arr |-> arr,
     pat |-> SelectPat(arr)]

\* build(): the shell-command test
NeedsShell(c) ==
    Contains(c, <<"|">>) \/ Contains(c, <<"&", "&">>) \/ Contains(c, <<"|", "|">>)

\* build(): self.cmd after the shell-command block
WrapCmd(c) ==
    IF NeedsShell(c)
    THEN LET quote == IF Contains(c, <<"'">>) THEN <<"\"">> ELSE <<"'">>
         IN  <<"s", "h", " ", "-", "c", " ">> \o quote \o c \o quote
    ELSE c

\* build(): the assertion on the array size
ArrayAssertOk(n) == ArrayLow < n /\ n < ArrayHigh

\* build(): whether the array block raises AssertionError
ArrayRaises(arr) == TruthyInt(arr) /\ ~ArrayAssertOk(arr[1])

\* build(): "qsub -P <code> -cwd" and the queue, threaded and array clauses
QsubHead(j) ==
    <<"q", "s", "u", "b", " ", "-", "P", " ">> \o PCODE \o <<" ", "-", "c", "w", "d">>
    \o (IF j.queue # DefaultQueue THEN <<" ", "-", "l", " ">> \o j.queue ELSE << >>)
    \o (IF TruthyInt(j.threaded)
        THEN <<" ", "-", "p", "e", " ", "t", "h", "r", "e", "a", "d", "e", "d", " ">>
             \o Str(j.threaded[1])
        ELSE << >>)
    \o (IF TruthyInt(j.arr) THEN <<" ", "-", "t", " ", "1", "-">> \o Str(j.arr[1]) ELSE << >>)

RedirectSame(outfile, errfile) == TruthyStr(outfile) /\ outfile = errfile

\* the I/O clauses of a build() that forgets redirect_same in the errfile test
QsubIOBoth(infile, outfile, errfile) ==
    (IF TruthyStr(infile) THEN <<" ", "-", "i", " ">> \o infile[1] ELSE << >>)
    \o (IF RedirectSame(outfile, errfile) THEN <<" ", "-", "j", " ", "y">> ELSE << >>)
    \o (IF TruthyStr(outfile) THEN <<" ", "-", "o", " ">> \o outfile[1] ELSE << >>)
    \o (IF TruthyStr(errfile) THEN <<" ", "-", "e", " ">> \o errfile[1] ELSE << >>)

\* build(): the I/O clauses
QsubIO(infile, outfile, errfile) ==
    (IF TruthyStr(infile) THEN <<" ", "-", "i", " ">> \o infile[1] ELSE << >>)
    \o (IF RedirectSame(outfile, errfile) THEN <<" ", "-", "j", " ", "y">> ELSE << >>)
    \o (IF TruthyStr(outfile) THEN <<" ", "-", "o", " ">> \o outfile[1] ELSE << >>)
    \o (IF TruthyStr(errfile) /\ ~RedirectSame(outfile, errfile)
        THEN <<" ", "-", "e", " ">> \o errfile[1] ELSE << >>)

\* build(): the object after the call and what the call gave: the command, or
\* None when the assertion raised (self.cmd is assigned before the assertion)
Build(j) ==
    LET after == [j EXCEPT !.cmd = WrapCmd(j.cmd)]
    IN  [self |-> after,
         raised |-> ArrayRaises(j.arr),
         out |-> IF ArrayRaises(j.arr) THEN None
                 ELSE Some(QsubHead(after) \o QsubIO(j.infile, j.outfile, j.errfile)
                           \o <<" ">> \o after.cmd)]

----------------------------------------------------------------------------
(* what a specification leaves untouched: the parts of the program it does
   not run *)

NoArgs == [kind |-> "none", cmds |-> << >>, outfiles |-> << >>, ncmds |-> 0,
           queue |-> DefaultQueue, threaded |-> None]

\* the states of a file: "absent"; "stale", left by a prior run; "new", written
\* by a job of this run alone; "mixed", a stale file a job of this run wrote to.
\* fs[path] is [live |-> state, bak |-> the states renamed away, oldest first]
Paths == {<<"o">>, <<"p">>, <<"e">>}

\* every file of the namespace in one state
FsAll(state) == [path \in Paths |-> [live |-> state, bak |-> << >>]]

IdleBuild ==
    /\ job = GridProcess(<<"a">>, DefaultQueue, None, None, None, None, None)
    /\ job0 = job /\ builds = << >>

IdleGrid ==
    /\ batch = << >> /\ cur = 1 /\ pc = "idle" /\ sent = << >>
    /\ fs = FsAll("absent") /\ grid = << >> /\ args = NoArgs /\ resp = None

IdleRun == cmd = << >> /\ i = 0 /\ loc = None

IdleJobs == procs = << >> /\ ppc = [phase |-> "idle", k |-> 0]

----------------------------------------------------------------------------
(* SpecBuild: GridProcess objects built by their constructor, build() called
   on them up to MaxBuilds times *)

MaxBuilds == 2

BuildCmds ==
    { <<"a">>,
      <<"a", " ", "|", " ", "b">>,
      <<"a", " ", "&", "&", " ", "b">>,
      <<"a", " ", "|", "|", " ", "b">>,
      <<"a", " ", "'", "x", "'", " ", "|", " ", "b">>,
      <<"a", " ", "&", " ", "b">> }

Queues == {DefaultQueue, <<"h", "i">>}
Threadeds == {None, Some(0), Some(4)}
Infiles == {None, Some(<<"i">>)}
Outfiles == {None, Some(<< >>), Some(<<"o">>)}
Errfiles == {None, Some(<<"o">>), Some(<<"e">>)}
ArrSizes == {None, Some(-1), Some(0), Some(1), Some(2), Some(ArrayHigh - 1), Some(ArrayHigh)}

InitBuild ==
    /\ \E c \in BuildCmds, q \in Queues, t \in Threadeds, inf \in Infiles,
          o \in Outfiles, e \in Errfiles, a \in ArrSizes :
          job = GridProcess(c, q, t, inf, o, e, a)
    /\ job0 = job
    /\ builds = << >>
    /\ IdleGrid /\ IdleRun /\ IdleJobs

\* one call of job.build()
BuildCall ==
    /\ Len(builds) < MaxBuilds
    /\ job' = Build(job).self
    /\ builds' = Append(builds, Build(job).out)
    /\ UNCHANGED <<job0, gridVars, runVars, jobsVars>>

NextBuild == BuildCall

SpecBuild == InitBuild /\ [][NextBuild]_vars

----------------------------------------------------------------------------
(* GridProcess.start *)

YourJob == <<"Y", "o", "u", "r", " ", "j", "o", "b", " ">>
YourJobArray == <<"Y", "o", "u", "r", " ", "j", "o", "b", "-", "a", "r", "r", "a", "y", " ">>
MinusOne == <<"-", "1">>

\* the character classes of the two patterns: [0-9] and \S
InClass(cls, c) == IF cls = "digit" THEN c \in DigitSet ELSE c \notin Whitespace

\* the end of the longest run of characters of a class that starts at index from
ClassEnd(s, from, cls) ==
    LET stops == {k \in from..Len(s) : ~InClass(cls, s[k])}
    IN  IF stops = {} THEN Len(s) ELSE (CHOOSE k \in stops : \A h \in stops : k <= h) - 1

\* re.search of  <lit>(?P<id>class*)<space>  in s: the id of the leftmost match,
\* None when nothing matches.  The class holds no space, so the greedy run either
\* ends before a space or the attempt at that position fails.
SearchLit(s, lit, cls) ==
    LET ok == {k \in 1..(Len(s) - Len(lit) + 1) :
                 /\ SubSeq(s, k, k + Len(lit) - 1) = lit
                 /\ LET e == ClassEnd(s, k + Len(lit), cls)
                    IN  e < Len(s) /\ s[e + 1] = " "}
    IN  IF ok = {} THEN None
        ELSE LET k == CHOOSE k \in ok : \A h \in ok : k <= h
             IN  Some(SubSeq(s, k + Len(lit), ClassEnd(s, k + Len(lit), cls)))

\* re.search(self.pat, output): pat1 is "Your job (?P<id>[0-9]*) ", pat2 is
\* "Your job-array (?P<id>\S*) "
Search(pat, s) ==
    IF pat = Pat1 THEN SearchLit(s, YourJob, "digit")
    ELSE SearchLit(s, YourJobArray, "nonspace")

\* start(), up to the assignment of self.jobid: the object afterwards, the
\* exception raised ("" for none) and the command executed (None when build()
\* raised before anything was executed)
StartSubmit(j, output) ==
    LET b == Build(j)
        m == Search(j.pat, output)
    IN  IF b.raised
        THEN [self |-> b.self, exc |-> "AssertionError", sent |-> None]
        ELSE IF Strip(output) # << >>
             THEN IF m = None
                  THEN [self |-> b.self, exc |-> "AttributeError", sent |-> b.out]
                  ELSE [self |-> [b.self EXCEPT !.jobid = m[1]], exc |-> "", sent |-> b.out]
             ELSE [self |-> [b.self EXCEPT !.jobid = MinusOne], exc |-> "", sent |-> b.out]

Exists(f, path) == path \in DOMAIN f /\ f[path].live # "absent"

\* backup(path) of jcvi.apps.base: an existing file is renamed out of the way
Backup(f, path) ==
    IF Exists(f, path)
    THEN [f EXCEPT ![path] = [live |-> "absent", bak |-> Append(f[path].bak, f[path].live)]]
    ELSE f

\* start(), after the assignment of self.jobid: the two backups
StartBackup(j, f) ==
    LET f1 == IF TruthyStr(j.outfile) THEN Backup(f, j.outfile[1]) ELSE f
    IN  IF TruthyStr(j.errfile) THEN Backup(f1, j.errfile[1]) ELSE f1

\* the submitted job, running on the grid, writes to a file
WriteFile(f, path) ==
    IF path \in DOMAIN f
    THEN [f EXCEPT ![path].live = IF f[path].live \in {"stale", "mixed"} THEN "mixed" ELSE "new"]
    ELSE f

\* the scheduler took the job: its stdout confirms a job or a job array
Accepted(output) == Search(Pat1, output) # None \/ Search(Pat2, output) # None

Responses ==
    { << >>,
      <<"\n">>,
      YourJob \o <<"1", "2", " ", "o", "k", "\n">>,
      <<"x", " ">> \o YourJob \o <<"7", " ", "o", "k", "\n">>,
      YourJob \o <<"1", "2", "\n">>,
      YourJob \o <<" ", "o", "k", "\n">>,
      YourJobArray \o <<"6", ".", "1", "-", "2", ":", "1", " ", "o", "k", "\n">>,
      <<"n", "o", "\n">> }

----------------------------------------------------------------------------
(* SpecGrid: a Grid built from a command list and run, or the one array job
   of array(), every start() taken as one step *)

MaxCmds == 2
MaxLines == 3

GridCmds == { <<"a">>, <<"a", " ", "|", " ", "b">> }
GridOuts == { Some(<<"o">>), Some(<<"p">>) }

SeqsUpTo(S, n) == UNION {[1..k -> S] : k \in 0..n}

Min(a, b) == IF a < b THEN a ELSE b

\* Grid.__init__: the assertion on cmds
GridAssertOk(cmds) == cmds # << >>

\* a Grid.__init__ that stops after the first pair
GridJobsFirstOnly(cmds, outfiles) ==
    LET outs == IF outfiles = << >> THEN [k \in 1..Len(cmds) |-> None] ELSE outfiles
    IN  [k \in 1..Min(1, Min(Len(cmds), Len(outs))) |->
            GridProcess(cmds[k], DefaultQueue, None, None, outs[k], None, None)]

\* Grid.__init__: the jobs appended, one per pair of zip(cmds, outfiles)
GridJobs(cmds, outfiles) ==
    LET outs == IF outfiles = << >> THEN [k \in 1..Len(cmds) |-> None] ELSE outfiles
    IN  [k \in 1..Min(Len(cmds), Len(outs)) |->
            GridProcess(cmds[k], DefaultQueue, None, None, outs[k], None, None)]

ArrayRunfile == <<"a", "r", "r", "a", "y", ".", "s", "h">>
ArrayOutfile == <<"\\", "$", "T", "A", "S", "K", "_", "I", "D", ".", "o", "u", "t">>

\* array(): the job made for a command file of ncmds lines
ArrayJob(ncmds, queue, threaded) ==
    GridProcess(ArrayRunfile, queue, threaded, None, Some(ArrayOutfile),
                Some(ArrayOutfile), Some(ncmds))

\* the line counts of the command file given to array()
LineCounts == (0..MaxLines) \cup {ArrayHigh - 1, ArrayHigh}

InitGridBatch ==
    \E cmds \in SeqsUpTo(GridCmds, MaxCmds), outfiles \in SeqsUpTo(GridOuts, MaxCmds + 1) :
        /\ args = [NoArgs EXCEPT !.kind = "Grid", !.cmds = cmds, !.outfiles = outfiles]
        /\ batch = IF GridAssertOk(cmds) THEN GridJobs(cmds, outfiles) ELSE << >>
        /\ pc = IF GridAssertOk(cmds) THEN "run" ELSE "raised"

InitArray ==
    \E n \in LineCounts, q \in Queues, t \in {None, Some(4)} :
        /\ args = [NoArgs EXCEPT !.kind = "array", !.ncmds = n, !.queue = q, !.threaded = t]
        /\ batch = <<ArrayJob(n, q, t)>>
        /\ pc = "run"

InitGrid ==
    /\ InitGridBatch \/ InitArray
    /\ cur = 1
    /\ sent = << >>
    /\ resp = None
    /\ fs = FsAll("stale")
    /\ grid = [k \in 1..Len(batch) |-> "none"]
    /\ IdleBuild /\ IdleRun /\ IdleJobs

\* the submission part of batch[cur].start(), the submission tool printing
\* output: the job, the log of executed commands, the scheduler's queue
Submit(output, next) ==
    \E s \in {StartSubmit(batch[cur], output)} :
        /\ batch' = [batch EXCEPT ![cur] = s.self]
        /\ sent' = IF s.sent = None THEN sent ELSE Append(sent, s.sent[1])
        /\ resp' = IF s.sent = None THEN resp ELSE Some(output)
        /\ grid' = IF s.sent # None /\ Accepted(output)
                   THEN [grid EXCEPT ![cur] = "queued"] ELSE grid
        /\ pc' = IF s.exc # "" THEN "raised" ELSE next

\* the whole of batch[cur].start(): the submission, then the backups unless
\* an exception ended the call
Start(output, next) ==
    /\ Submit(output, next)
    /\ fs' = IF StartSubmit(batch[cur], output).exc # "" THEN fs
             ELSE StartBackup(batch[cur], fs)

\* Grid.run() / array(): one pi.start(), and the loop moving on
GridStart ==
    /\ pc = "run"
    /\ cur <= Len(batch)
    /\ \E output \in Responses :
          /\ Start(output, IF cur = Len(batch) THEN "done" ELSE "run")
          /\ cur' = IF StartSubmit(batch[cur], output).exc # "" THEN cur ELSE cur + 1
    /\ UNCHANGED <<args, buildVars, runVars, jobsVars>>

NextGrid == GridStart

SpecGrid == InitGrid /\ [][NextGrid]_vars

----------------------------------------------------------------------------
(* SpecBackup: start() of one job, step by step, beside the job it submits *)

InitBackup ==
    /\ \E o \in {None, Some(<<"o">>)}, e \in Errfiles :
          batch = <<GridProcess(<<"a">>, DefaultQueue, None, None, o, e, None)>>
    /\ args = [NoArgs EXCEPT !.kind = "start"]
    /\ fs \in [Paths -> {[live |-> "absent", bak |-> << >>], [live |-> "stale", bak |-> << >>]}]
    /\ cur = 1
    /\ pc = "popen"
    /\ sent = << >>
    /\ resp = None
    /\ grid = <<"none">>
    /\ IdleBuild /\ IdleRun /\ IdleJobs

\* start(): build(), popen(cmd).read() and the job id
Popen ==
    /\ pc = "popen"
    /\ \E output \in Responses : Submit(output, "backup")
    /\ UNCHANGED <<fs, cur, args, buildVars, runVars, jobsVars>>

\* start(): the backups and the log line
BackupStep ==
    /\ pc = "backup"
    /\ fs' = StartBackup(batch[cur], fs)
    /\ pc' = "done"
    /\ UNCHANGED <<batch, cur, sent, grid, args, resp, buildVars, runVars, jobsVars>>

\* the grid runs the queued job, which writes its output and error files
JobWrite ==
    \E k \in 1..Len(grid) :
        /\ grid[k] = "queued"
        /\ grid' = [grid EXCEPT ![k] = "wrote"]
        /\ LET j == batch[k]
               f1 == IF TruthyStr(j.outfile) THEN WriteFile(fs, j.outfile[1]) ELSE fs
           IN  fs' = IF TruthyStr(j.errfile) THEN WriteFile(f1, j.errfile[1]) ELSE f1
        /\ UNCHANGED <<batch, cur, pc, sent, args, resp, buildVars, runVars, jobsVars>>

NextBackup == Popen \/ BackupStep \/ JobWrite

SpecBackup == InitBackup /\ [][NextBackup]_vars

----------------------------------------------------------------------------
(* SpecRun: run(), one loop iteration per step; the input tokens are read
   one at a time, as from standard input *)

MaxFiles == 2
MaxTokLen == 2

\* run(): the values derived from one (stripped) input token
\* the derived values with the first part cut from the whole token
DeriveFirstOfToken(filename) ==
    LET sp == OpSplit(filename)
    IN  [noextname |-> RSplit1Head(filename, <<".">>),
         prefix |-> sp[1],
         basename |-> sp[2],
         basenoextname |-> RSplit1Head(sp[2], <<".">>),
         basefirstname |-> SplitHead(sp[2], <<".">>),
         firstname |-> SplitHead(filename, <<".">>)]

Derive(filename) ==
    LET sp == OpSplit(filename)
    IN  [noextname |-> RSplit1Head(filename, <<".">>),
         prefix |-> sp[1],
         basename |-> sp[2],
         basenoextname |-> RSplit1Head(sp[2], <<".">>),
         basefirstname |-> SplitHead(sp[2], <<".">>),
         firstname |-> OpJoin(sp[1], SplitHead(sp[2], <<".">>))]

\* the {} step with the test made for "{}" rather than for "{"
InsertOnlyIfBraces(template, filename) ==
    IF Contains(template, <<"{", "}">>)
    THEN Replace(template, <<"{", "}">>, filename)
    ELSE template \o <<" ">> \o filename

\* run(): the {} placeholder, or the token appended
Insert(template, filename) ==
    IF Contains(template, <<"{">>)
    THEN Replace(template, <<"{", "}">>, filename)
    ELSE template \o <<" ">> \o filename

\* run(): the six other placeholders, replaced one after the other
Substitute(ncmd, d, n) ==
    LET s1 == Replace(ncmd, <<"{", ".", "}">>, d.noextname)
        s2 == Replace(s1, <<"{", "_", "}">>, d.firstname)
        s3 == Replace(s2, <<"{", "/", "}">>, d.basename)
        s4 == Replace(s3, <<"{", "/", ".", "}">>, d.basenoextname)
        s5 == Replace(s4, <<"{", "/", "_", "}">>, d.basefirstname)
    IN  Replace(s5, <<"{", "#", "}">>, Str(n))

\* run(): the split at the first ">": <<ncmd, outfile>>
Redirect(ncmd) ==
    IF Contains(ncmd, <<">">>)
    THEN <<Strip(Strip(Split1(ncmd, <<">">>)[1])), Some(Strip(Split1(ncmd, <<">">>)[2]))>>
    ELSE <<Strip(ncmd), None>>

\* a GridProcess made with errfile=outfile, as array() makes its job
RunJobSameErr(ncmd, outfile, queue, threaded) ==
    GridProcess(ncmd, queue, threaded, None, outfile, outfile, None)

\* run(): the GridProcess made for one expanded command
RunJob(ncmd, outfile, queue, threaded) ==
    GridProcess(ncmd, queue, threaded, None, outfile, None, None)

Templates ==
    { << >>,
      <<"c">>,
      <<"c", " ", "{", "}">>,
      <<"c", " ", "{", "}", " ", "{", "}">>,
      <<"c", " ", "{", ".", "}">>,
      <<"c", " ", "{", "_", "}">>,
      <<"c", " ", "{", "/", "}">>,
      <<"c", " ", "{", "/", ".", "}">>,
      <<"c", " ", "{", "/", "_", "}">>,
      <<"c", " ", "{", "#", "}">>,
      <<"c", " ", "{", "}", " ", "{", ".", "}", ".", "p">>,
      <<"c", " ", "{", "}", " ", ">", " ", "{", ".", "}">>,
      <<"c", " ", ">", " ", "o">>,
      <<"c", " ", "{">>,
      <<"{", "}", ",", "{", ".", "}", ",", "{", "_", "}", ",", "{", "/", "}", ",",
        "{", "/", ".", "}", ",", "{", "/", "_", "}", ",", "{", "#", "}">>,
      <<"c", " ", "{", "}", " ", "|", " ", "d">>,
      <<"c", " ", "{", "/", "}", " ", ">", "{", "/", "_", "}", ".", "o">>,
      <<"c", " ", ">">>,
      <<"c", " ", "{", ".", "}", " ", ">", " ", "o", " ", ">", " ", "p">> }

Example == <<"t", "/", "e", "x", "a", "m", "p", "l", "e", ".", "t", "a", "r", ".", "g", "z">>

TokenChars == {"a", ".", "/"}

\* the input lines: every short path-like token, the docstring's example, a line
\* as standard input gives it (with its newline), a token with a space inside
\* and tokens with a '.' in the directory part or a doubled separator
Lines ==
    SeqsUpTo(TokenChars, MaxTokLen)
    \cup {Example, <<" ", "a", ".", "a", "\n">>, <<"a", " ", "b">>,
          <<".", "/", "a">>, <<"a", ".", "b", "/", "c", ".", "d">>, <<"a", "/", "/", "b", ".", "c">>}

\* opts.queue and opts.threaded: the defaults, or both given
RunOpts == {<<DefaultQueue, None>>, <<<<"h", "i">>, Some(4)>>}

InitRun ==
    /\ cmd \in Templates
    /\ \E o \in RunOpts :
          args = [NoArgs EXCEPT !.kind = "run", !.queue = o[1], !.threaded = o[2]]
    /\ i = 0
    /\ loc = None
    /\ batch = << >> /\ cur = 1 /\ pc = "loop" /\ sent = << >>
    /\ fs = FsAll("stale") /\ grid = << >> /\ resp = None
    /\ IdleBuild /\ IdleJobs

\* run(): the loop reads the next token and expands the template for it, up
\* to the construction of p.  batch, sent and grid now belong to the new p.
RunExpand ==
    /\ pc = "loop"
    /\ i < MaxFiles
    /\ \E line \in Lines :
       \E filename \in {Strip(line)} :
       \E d \in {Derive(filename)} :
       \E ncmd1 \in {Insert(cmd, filename)} :
       \E ncmd2 \in {Substitute(ncmd1, d, i)} :
       \E r \in {Redirect(ncmd2)} :
          /\ loc' = Some([line |-> line, filename |-> filename, d |-> d, i |-> i,
                          ncmd1 |-> ncmd1, ncmd2 |-> ncmd2, ncmd |-> r[1],
                          outfile |-> r[2]])
          /\ batch' = <<RunJob(r[1], r[2], args.queue, args.threaded)>>
    /\ sent' = << >>
    /\ grid' = <<"none">>
    /\ pc' = "start"
    /\ UNCHANGED <<cmd, i, cur, fs, args, resp, buildVars, jobsVars>>

\* run(): p.start(), and the loop moving on
RunStart ==
    /\ pc = "start"
    /\ \E output \in Responses : Start(output, "loop")
    /\ i' = i + 1
    /\ UNCHANGED <<cmd, loc, cur, args, buildVars, jobsVars>>

\* run(): the input is exhausted
RunEnd ==
    /\ pc = "loop"
    /\ pc' = "done"
    /\ UNCHANGED <<batch, cur, sent, fs, grid, args, resp, runVars, buildVars, jobsVars>>

NextRun == RunExpand \/ RunStart \/ RunEnd

SpecRun == InitRun /\ [][NextRun]_vars

----------------------------------------------------------------------------
(* SpecJobs: Jobs(target, args).run(), the children running beside the parent *)

MaxProcs == 4

\* Jobs.__init__: one Process per work item, not started
InitJobs ==
    /\ \E n \in 0..MaxProcs :
          procs = [k \in 1..n |-> [state |-> "new", starts |-> 0, joins |-> 0]]
    /\ ppc = [phase |-> "start", k |-> 1]
    /\ IdleBuild /\ IdleGrid /\ IdleRun

\* a join() that does not wait
JoinReturnsAtOnce(p) == TRUE

\* Process.join() returns once the child has finished
JoinReturns(p) == p.state = "finished"

\* run(): pi.start() in the first loop
JobsStartChild ==
    /\ ppc.phase = "start"
    /\ ppc.k <= Len(procs)
    /\ procs' = [procs EXCEPT ![ppc.k] =
                    [@ EXCEPT !.state = IF @ = "new" THEN "running" ELSE @,
                              !.starts = @ + 1]]
    /\ ppc' = [ppc EXCEPT !.k = @ + 1]
    /\ UNCHANGED <<buildVars, gridVars, runVars>>

\* run(): the first loop ends, the second begins
JobsStartDone ==
    /\ ppc.phase = "start"
    /\ ppc.k > Len(procs)
    /\ ppc' = [phase |-> "join", k |-> 1]
    /\ UNCHANGED <<procs, buildVars, gridVars, runVars>>

\* run(): pi.join() in the second loop
JobsJoinChild ==
    /\ ppc.phase = "join"
    /\ ppc.k <= Len(procs)
    /\ JoinReturns(procs[ppc.k])
    /\ procs' = [procs EXCEPT ![ppc.k].joins = @ + 1]
    /\ ppc' = [ppc EXCEPT !.k = @ + 1]
    /\ UNCHANGED <<buildVars, gridVars, runVars>>

\* run() returns
JobsReturn ==
    /\ ppc.phase = "join"
    /\ ppc.k > Len(procs)
    /\ ppc' = [phase |-> "done", k |-> 0]
    /\ UNCHANGED <<procs, buildVars, gridVars, runVars>>

\* a started child runs its target to the end
ChildFinish ==
    \E c \in 1..Len(procs) :
        /\ procs[c].state = "running"
        /\ procs' = [procs EXCEPT ![c].state = "finished"]
        /\ UNCHANGED <<ppc, buildVars, gridVars, runVars>>

NextJobs == JobsStartChild \/ JobsStartDone \/ JobsJoinChild \/ JobsReturn \/ ChildFinish

SpecJobs == InitJobs /\ [][NextJobs]_vars

----------------------------------------------------------------------------
(* Properties of build(), under SpecBuild *)

\* the number of places where sub begins in s
Count(s, sub) ==
    Cardinality({k \in 1..(Len(s) - Len(sub) + 1) : SubSeq(s, k, k + Len(sub) - 1) = sub})

ClauseT == <<" ", "-", "t", " ", "1", "-">>
ClauseJ == <<" ", "-", "j", " ", "y">>
ClauseO == <<" ", "-", "o", " ">>
ClauseE == <<" ", "-", "e", " ">>
ShC == <<"s", "h", " ", "-", "c", " ">>

\* C1: for every array size given to a job that is not strictly between 1 and
\* 100000 (0, 1, negative values and values from 100000 on), build() raises the
\* assertion error and returns no command; and no command without the array-range
\* clause is ever returned for a job whose array size was given.
C1_InvalidArraySizeFailsFast ==
    \A k \in 1..Len(builds) :
        /\ (job0.arr # None /\ ~(1 < job0.arr[1] /\ job0.arr[1] < 100000))
              => builds[k] = None
        /\ (job0.arr # None /\ builds[k] # None)
              => Contains(builds[k][1], ClauseT \o Str(job0.arr[1]))

\* C4: when the output and error files are both given and equal, the command
\* built holds the combined-redirection clause "-j y" exactly once and never both
\* an "-o" and an "-e" clause for that path; when they differ or only one is
\* given, it holds no "-j y" clause, and an "-o" / "-e" clause exactly for each
\* file that is given, naming that file.
C4_CombinedRedirectionOnce ==
    \A k \in 1..Len(builds) :
        builds[k] # None =>
            LET out == builds[k][1]
                o == job0.outfile
                e == job0.errfile
            IN  IF TruthyStr(o) /\ TruthyStr(e) /\ o[1] = e[1]
                THEN /\ Count(out, ClauseJ) = 1
                     /\ ~(Contains(out, ClauseO \o o[1]) /\ Contains(out, ClauseE \o e[1]))
                ELSE /\ Count(out, ClauseJ) = 0
                     /\ Contains(out, ClauseO) <=> TruthyStr(o)
                     /\ Contains(out, ClauseE) <=> TruthyStr(e)
                     /\ TruthyStr(o) => Count(out, ClauseO \o o[1]) = 1 /\ Count(out, ClauseO) = 1
                     /\ TruthyStr(e) => Count(out, ClauseE \o e[1]) = 1 /\ Count(out, ClauseE) = 1

\* a job with equal, non-empty output and error files was built, and its command
\* holds the combined clause
C4_Witness ==
    /\ Len(builds) >= 1
    /\ builds[1] # None
    /\ TruthyStr(job0.outfile) /\ job0.outfile = job0.errfile
    /\ Contains(builds[1][1], ClauseJ)

\* C10: build() only reads the job: the command field is the same before and
\* after build(), a second build() gives exactly the command the first gave, and
\* the command is wrapped as "sh -c ..." at most once.
C10_BuildOnlyReads ==
    Len(builds) >= 1 =>
        /\ job.cmd = job0.cmd
        /\ \A k \in 1..Len(builds) :
              /\ builds[k] = builds[1]
              /\ builds[k] # None => Count(builds[k][1], ShC) <= 1

----------------------------------------------------------------------------
(* Properties of Grid, array() and start(), under SpecGrid and SpecBackup *)

\* the output files Grid.__init__ pairs the commands with
GridOutsGiven == IF args.outfiles = << >> THEN [k \in 1..Len(args.cmds) |-> None]
                 ELSE args.outfiles

\* the submission command of the k-th command of the list
GridCommand(k) ==
    Build(GridProcess(args.cmds[k], DefaultQueue, None, None, GridOutsGiven[k], None,
                      None)).out[1]

IsGrid == args.kind = "Grid" /\ args.cmds # << >>

\* run() is over: it returned or an exception left it
GridOver == pc \in {"done", "raised"}

\* the last submission printed nothing (but white space)
SoftFailure == resp # None /\ Strip(resp[1]) = << >>

\* C5: for a non-empty command list of length N and any outfiles argument, Grid
\* holds N jobs and Grid.run() submits each of them exactly once, one at a time,
\* in list order; a submission with empty stdout gets jobId "-1", does not raise
\* and does not keep later jobs from being submitted.
C5_GridSubmitsEveryCommand ==
    IsGrid =>
        /\ Len(batch) = Len(args.cmds)
        /\ Len(sent) <= Len(args.cmds)
        /\ \A k \in 1..Len(sent) : sent[k] = GridCommand(k)
        /\ GridOver => Len(sent) = Len(args.cmds)
        /\ SoftFailure => pc # "raised" /\ batch[Len(sent)].jobid = MinusOne

\* C5, amended: Grid holds N jobs when outfiles is empty and min(N, len(outfiles))
\* otherwise; Grid.run() submits the jobs it holds one at a time in list order,
\* each at most once, and all of them when it returns; it stops early only when a
\* submission raises on a non-empty, unrecognised response; a submission with
\* empty stdout gets jobId "-1", does not raise, and the loop goes on to the next
\* job.
C5_GridSubmitsHeldJobsInOrder ==
    IsGrid =>
        LET n == IF args.outfiles = << >> THEN Len(args.cmds)
                 ELSE Min(Len(args.cmds), Len(args.outfiles))
        IN  /\ Len(batch) = n
            /\ Len(sent) = (IF pc = "raised" THEN cur ELSE cur - 1)
            /\ Len(sent) <= n
            /\ \A k \in 1..Len(sent) : sent[k] = GridCommand(k)
            /\ pc = "done" <=> (cur = n + 1)
            /\ pc = "done" => Len(sent) = n
            /\ pc = "raised" => Strip(resp[1]) # << >> /\ Search(Pat1, resp[1]) = None
            /\ SoftFailure => /\ pc # "raised"
                              /\ batch[Len(sent)].jobid = MinusOne
                              /\ pc = "run" <=> Len(sent) < n

\* a Grid of two jobs was run to the end, the first submission printing nothing
C5_Witness ==
    /\ IsGrid
    /\ pc = "done"
    /\ Len(batch) = 2
    /\ Len(sent) = 2
    /\ batch[1].jobid = MinusOne

\* the pattern the claim selects: the array pattern exactly when an array size
\* was given
ClaimedPat(j) == IF j.arr # None THEN Pat2 ELSE Pat1

\* the last submission printed something, and no confirmation the claimed
\* pattern recognises
HardFailureClaimed ==
    /\ resp # None
    /\ Len(sent) >= 1
    /\ Strip(resp[1]) # << >>
    /\ Search(ClaimedPat(batch[cur - (IF pc = "raised" THEN 0 ELSE 1)]), resp[1]) = None

\* C6: the response pattern is the array pattern exactly when the array size is
\* set and the scalar pattern otherwise; when the stdout is non-empty after
\* trimming and holds no confirmation for the selected pattern, start() raises
\* and stores no jobId; and the jobIds of the jobs submitted before stay as
\* they were.
C6_PatternAndHardFailure ==
    /\ [](/\ \A k \in 1..Len(batch) : batch[k].pat = ClaimedPat(batch[k])
          /\ HardFailureClaimed => pc = "raised" /\ batch[cur].jobid = << >>)
    /\ [][pc' = "raised" => \A k \in 1..(cur - 1) : batch'[k].jobid = batch[k].jobid]_vars

\* C8: a file that exists from a prior run is renamed out of the way before the
\* newly submitted job can write to it: no queued job has a stale output or error
\* file in place, and no stale file is ever overwritten or appended to.
C8_BackupBeforeJobWrites ==
    /\ \A k \in 1..Len(grid) :
          grid[k] = "queued" =>
              /\ TruthyStr(batch[k].outfile) /\ batch[k].outfile[1] \in Paths
                    => fs[batch[k].outfile[1]].live # "stale"
              /\ TruthyStr(batch[k].errfile) /\ batch[k].errfile[1] \in Paths
                    => fs[batch[k].errfile[1]].live # "stale"
    /\ \A path \in Paths : fs[path].live # "mixed"

----------------------------------------------------------------------------
(* Properties of run(), under SpecRun *)

\* s with every occurrence of old replaced by new, read off character by character
RECURSIVE Subst(_, _, _)
Subst(s, old, new) ==
    IF s = << >> THEN << >>
    ELSE IF Len(s) >= Len(old) /\ SubSeq(s, 1, Len(old)) = old
         THEN new \o Subst(SubSeq(s, Len(old) + 1, Len(s)), old, new)
         ELSE <<Head(s)>> \o Subst(Tail(s), old, new)

Braces == <<"{", "}">>
PhNoExt == <<"{", ".", "}">>
PhFirst == <<"{", "_", "}">>
PhBase == <<"{", "/", "}">>
PhBaseNoExt == <<"{", "/", ".", "}">>
PhBaseFirst == <<"{", "/", "_", "}">>
PhSeq == <<"{", "#", "}">>

\* the other placeholders substituted in text, with the values of loc
OthersSubstituted(text, L) ==
    Subst(Subst(Subst(Subst(Subst(Subst(text, PhNoExt, L.d.noextname),
                                        PhFirst, L.d.firstname),
                                  PhBase, L.d.basename),
                            PhBaseNoExt, L.d.basenoextname),
                      PhBaseFirst, L.d.basefirstname),
          PhSeq, Str(L.i))

\* C2: if the template contains the placeholder "{}", every occurrence is
\* replaced by the token; otherwise (also when the template holds only other
\* placeholders) the token is appended after a single space; the other
\* placeholders are substituted in both cases.
C2_AppendUnlessBracePair ==
    loc # None =>
        LET L == loc[1]
        IN  /\ L.ncmd1 = IF Contains(cmd, Braces) THEN Subst(cmd, Braces, L.filename)
                         ELSE cmd \o <<" ">> \o L.filename
            /\ L.ncmd2 = OthersSubstituted(L.ncmd1, L)

\* C2, amended: if the template contains the character "{" at all (so also when it
\* holds only other placeholders such as "{.}" or "{#}"), every occurrence of "{}"
\* is replaced by the token and nothing is appended; only a template without any
\* "{" gets the token appended after a single space; the other placeholders are
\* substituted afterwards, one after the other, in both cases.
C2_AppendUnlessAnyBrace ==
    loc # None =>
        LET L == loc[1]
        IN  /\ L.ncmd1 = IF Contains(cmd, <<"{">>) THEN Subst(cmd, Braces, L.filename)
                         ELSE cmd \o <<" ">> \o L.filename
            /\ L.ncmd2 = OthersSubstituted(L.ncmd1, L)

\* a template with only another placeholder was expanded for a non-empty token:
\* the placeholder was substituted and the token was not appended
C2_Witness ==
    /\ loc # None
    /\ cmd = <<"c", " ", "{", ".", "}">>
    /\ loc[1].filename = <<"a", ".", "a">>
    /\ loc[1].ncmd2 = <<"c", " ", "a">>

\* the options build() puts before the command in the command that was executed
SentOptions == SubSeq(sent[1], 1, Len(sent[1]) - Len(batch[1].cmd) - 1)

\* the expanded command holds a ">", and outfile is the text after the first one,
\* trimmed, ncmd the text before it, trimmed
SplitAtFirstRedirect(L) ==
    \E k \in 1..Len(L.ncmd2) :
        /\ L.ncmd2[k] = ">"
        /\ \A m \in 1..(k - 1) : L.ncmd2[m] # ">"
        /\ L.outfile = Some(Strip(SubSeq(L.ncmd2, k + 1, Len(L.ncmd2))))
        /\ L.ncmd = Strip(SubSeq(L.ncmd2, 1, k - 1))

\* C3: for every job run() creates from an expanded command containing ">", the
\* job's errorFile equals its outputFile, the text after the first ">", trimmed,
\* and the submission command built for it carries the combined-stream clause.
C3_ErrorFileFollowsOutputFile ==
    (loc # None /\ Contains(loc[1].ncmd2, <<">">>)) =>
        /\ SplitAtFirstRedirect(loc[1])
        /\ batch[1].outfile = loc[1].outfile
        /\ batch[1].errfile = batch[1].outfile
        /\ sent # << >> => Contains(SentOptions, ClauseJ)

\* C3, amended: for every job run() creates from an expanded command containing
\* ">", the job's outputFile is the text after the first ">", trimmed, and its
\* errorFile is left unset; the options of the submission command built for it
\* hold one "-o" clause naming that file when the name is non-empty, and neither
\* the combined-stream clause "-j y" nor an "-e" clause.
C3_OnlyOutputFileIsSet ==
    (loc # None /\ Contains(loc[1].ncmd2, <<">">>)) =>
        /\ SplitAtFirstRedirect(loc[1])
        /\ batch[1].outfile = loc[1].outfile
        /\ batch[1].errfile = None
        /\ sent # << >> =>
              /\ ~Contains(SentOptions, ClauseJ)
              /\ ~Contains(SentOptions, ClauseE)
              /\ Count(SentOptions, ClauseO) = (IF batch[1].outfile[1] # << >> THEN 1 ELSE 0)
              /\ batch[1].outfile[1] # << >>
                    => Contains(SentOptions \o <<" ">>, ClauseO \o batch[1].outfile[1] \o <<" ">>)

\* "zcat {} > {.}"-like: a command with a redirection was expanded and submitted
\* with its output file
C3_Witness ==
    /\ loc # None
    /\ cmd = <<"c", " ", "{", "}", " ", ">", " ", "{", ".", "}">>
    /\ loc[1].filename = <<"a", ".", "a">>
    /\ sent # << >>
    /\ batch[1].outfile = Some(<<"a">>)
    /\ batch[1].cmd = <<"c", " ", "a", ".", "a">>

\* t without the substring from its last '.' on
CutAtLastDot(t) ==
    IF \E k \in 1..Len(t) : t[k] = "."
    THEN SubSeq(t, 1, (CHOOSE k \in 1..Len(t) :
                          t[k] = "." /\ \A m \in (k + 1)..Len(t) : t[m] # ".") - 1)
    ELSE t

\* the substring of t before its first '.'
BeforeFirstDot(t) ==
    IF \E k \in 1..Len(t) : t[k] = "."
    THEN SubSeq(t, 1, (CHOOSE k \in 1..Len(t) :
                          t[k] = "." /\ \A m \in 1..(k - 1) : t[m] # ".") - 1)
    ELSE t

\* the path component of t after its last separator
AfterLastSep(t) ==
    IF \E k \in 1..Len(t) : t[k] = "/"
    THEN SubSeq(t, 1 + (CHOOSE k \in 1..Len(t) :
                           t[k] = "/" /\ \A m \in (k + 1)..Len(t) : t[m] # "/"), Len(t))
    ELSE t

\* the directory part of t: what stands before the base name, without the
\* separators that end it (unless it is made of separators only)
DirPart(t) ==
    LET d == SubSeq(t, 1, Len(t) - Len(AfterLastSep(t)))
        solid == {k \in 1..Len(d) : d[k] # "/"}
    IN  IF solid = {} THEN d
        ELSE SubSeq(d, 1, CHOOSE k \in solid : \A m \in solid : m <= k)

\* the directory part, a separator unless it is empty or ends in one, and part
DirJoined(dir, part) ==
    IF dir = << >> \/ dir[Len(dir)] = "/" THEN dir \o part ELSE dir \o <<"/">> \o part

AllPlaceholders ==
    <<"{", "}", ",", "{", ".", "}", ",", "{", "_", "}", ",", "{", "/", "}", ",",
      "{", "/", ".", "}", ",", "{", "/", "_", "}", ",", "{", "#", "}">>

\* the zero-based position in the input of the token loc was computed for
Position == IF pc = "start" THEN i ELSE i - 1

\* what the template of all placeholders expands to, given the value of {_}
AllExpanded(t, first) ==
    t \o <<",">> \o CutAtLastDot(t) \o <<",">> \o first \o <<",">> \o AfterLastSep(t)
    \o <<",">> \o CutAtLastDot(AfterLastSep(t)) \o <<",">> \o BeforeFirstDot(AfterLastSep(t))
    \o <<",">> \o Str(Position)

ExampleValues ==
    [noextname |-> <<"t", "/", "e", "x", "a", "m", "p", "l", "e", ".", "t", "a", "r">>,
     firstname |-> <<"t", "/", "e", "x", "a", "m", "p", "l", "e">>,
     basename |-> <<"e", "x", "a", "m", "p", "l", "e", ".", "t", "a", "r", ".", "g", "z">>,
     basenoextname |-> <<"e", "x", "a", "m", "p", "l", "e", ".", "t", "a", "r">>,
     basefirstname |-> <<"e", "x", "a", "m", "p", "l", "e">>]

\* the values agree with the docstring's example
ExampleAgrees(L) ==
    L.filename = Example =>
        \A f \in DOMAIN ExampleValues : L.d[f] = ExampleValues[f]

\* C9: for every token (also one with a '.' in its directory part) the values
\* substituted are: {.} the token without the substring from its last '.', {_}
\* the substring of the token before its first '.', {/} the component after the
\* last separator, {/.} and {/_} the same two rules applied to that base name, {#}
\* the zero-based position of the token; t/example.tar.gz gives t/example.tar,
\* t/example, example.tar.gz, example.tar, example.
C9_ValuesFirstPartOfToken ==
    loc # None =>
        LET L == loc[1]
            t == L.filename
        IN  /\ L.d.noextname = CutAtLastDot(t)
            /\ L.d.firstname = BeforeFirstDot(t)
            /\ L.d.basename = AfterLastSep(t)
            /\ L.d.basenoextname = CutAtLastDot(AfterLastSep(t))
            /\ L.d.basefirstname = BeforeFirstDot(AfterLastSep(t))
            /\ L.i = Position
            /\ cmd = AllPlaceholders => L.ncmd2 = AllExpanded(t, BeforeFirstDot(t))
            /\ ExampleAgrees(L)

\* C9, amended: as C9, but {_} is the directory part of the token joined by a
\* separator with the part of the base name before its first '.', so a '.' in the
\* directory part is kept.
C9_ValuesFirstPartOfBaseName ==
    loc # None =>
        LET L == loc[1]
            t == L.filename
            first == DirJoined(DirPart(t), BeforeFirstDot(AfterLastSep(t)))
        IN  /\ L.d.noextname = CutAtLastDot(t)
            /\ L.d.firstname = first
            /\ L.d.basename = AfterLastSep(t)
            /\ L.d.basenoextname = CutAtLastDot(AfterLastSep(t))
            /\ L.d.basefirstname = BeforeFirstDot(AfterLastSep(t))
            /\ L.i = Position
            /\ cmd = AllPlaceholders => L.ncmd2 = AllExpanded(t, first)
            /\ ExampleAgrees(L)

\* the template of all placeholders was expanded for a second token, one with a
\* '.' in its directory part
C9_Witness ==
    /\ loc # None
    /\ cmd = AllPlaceholders
    /\ loc[1].i = 1
    /\ loc[1].filename = <<"a", ".", "b", "/", "c", ".", "d">>
    /\ loc[1].d.firstname = <<"a", ".", "b", "/", "c">>
    /\ loc[1].d.noextname = <<"a", ".", "b", "/", "c">>

----------------------------------------------------------------------------
(* Properties of Jobs.run(), under SpecJobs *)

\* C7: every child is started before the parent waits on any child, run()
\* returns only after every child has finished, and no child is started twice or
\* left unjoined; the children may finish in any order (C7_Witness: a later child
\* has finished while an earlier one still runs).
C7_StartAllThenJoinAll ==
    /\ \A c \in 1..Len(procs) :
          /\ procs[c].starts <= 1
          /\ procs[c].joins <= 1
          /\ procs[c].joins = 1 => procs[c].state = "finished"
          /\ procs[c].state = "new" <=> procs[c].starts = 0
    /\ ppc.phase \in {"join", "done"} =>
          \A c \in 1..Len(procs) : procs[c].starts = 1
    /\ ppc.phase = "start" =>
          \A c \in 1..Len(procs) : procs[c].joins = 0
    /\ ppc.phase = "done" =>
          \A c \in 1..Len(procs) : procs[c].state = "finished" /\ procs[c].joins = 1

\* the parent waits in the second loop for the first child, which still runs,
\* while a later child has already finished
C7_Witness ==
    /\ Len(procs) >= 2
    /\ ppc = [phase |-> "join", k |-> 1]
    /\ procs[1].state = "running"
    /\ procs[Len(procs)].state = "finished"

====
